---- MODULE Spec2Model ----
(***************************************************************************)
(* The CBOR value serializer of ciborium (src/ciborium/src/ser/mod.rs).    *)
(*                                                                         *)
(* Integers are modelled by their base-256 digits, least significant digit *)
(* first (an iN/uN value is a sequence of N/8 digits, two's complement for *)
(* the signed types), so that 64- and 128-bit values keep their width.     *)
(* The sink is the sequence of headers and raw byte runs the encoder has   *)
(* accepted.                                                               *)
(***************************************************************************)
EXTENDS Integers, Sequences, FiniteSets, TLC

VARIABLES sink, result, pc, stack, call, calls, flushed, value, decoded

vars == <<sink, result, pc, stack, call, calls, flushed, value, decoded>>

(***************************************************************************)
(* Bounds of the model.                                                    *)
(***************************************************************************)
MaxCalls == 5
MaxNest == 2
MaxSeq == 3

(***************************************************************************)
(* Program constants.                                                      *)
(***************************************************************************)
BIGPOS == 2
BIGNEG == 3
NULL == 22
U64Bytes == 8
U128Bytes == 16

TAG == "@@TAG@@"
TAGGED == "@@TAGGED@@"
UNTAGGED == "@@UNTAGGED@@"

(***************************************************************************)
(* Option<usize> lengths and the wire header shapes.                       *)
(***************************************************************************)
Some(n) == <<n>>
None == <<>>

Header(h, a) == [h |-> h, a |-> a]
Positive(x) == Header("Positive", x)
Negative(x) == Header("Negative", x)
Text(len) == Header("Text", len)
Bytes(len) == Header("Bytes", len)
Array(len) == Header("Array", len)
Map(len) == Header("Map", len)
Tag(x) == Header("Tag", x)
Simple(c) == Header("Simple", <<c>>)
Break == Header("Break", <<>>)
Raw(bytes) == Header("raw", bytes)

(***************************************************************************)
(* Integer helpers on digit sequences.                                     *)
(***************************************************************************)
Fill(d, n) == [i \in 1..n |-> d]

\* A small number as a uN value of n digits.
UInt(x, n) == [i \in 1..n |-> IF i = 1 THEN x ELSE 0]
U64(x) == UInt(x, U64Bytes)

RECURSIVE BitXor(_, _, _)
BitXor(a, b, n) ==
    IF n = 0 THEN 0
    ELSE (((a % 2) + (b % 2)) % 2) + 2 * BitXor(a \div 2, b \div 2, n - 1)

\* v ^ !0
xor_not0(v) == [i \in DOMAIN v |-> BitXor(v[i], 255, 8)]

\* v.is_negative() of a signed value
is_negative(v) == v[Len(v)] >= 128

\* v.into() from a narrower signed type: sign extension to n digits
sign_extend(v, n) ==
    [i \in 1..n |-> IF i <= Len(v) THEN v[i] ELSE IF is_negative(v) THEN 255 ELSE 0]

\* v.into() from a narrower unsigned type: zero extension to n digits
zero_extend(v, n) == [i \in 1..n |-> IF i <= Len(v) THEN v[i] ELSE 0]

\* u64::try_from(raw) of a u128
u64_try_from(raw) ==
    IF \A i \in (U64Bytes + 1)..Len(raw) : raw[i] = 0
    THEN [ok |-> TRUE, x |-> SubSeq(raw, 1, U64Bytes)]
    ELSE [ok |-> FALSE, x |-> <<>>]

\* Mutation of to_be_bytes: the bytes in little-endian order.
to_le_bytes(raw) == raw

\* raw.to_be_bytes(): most significant byte first
to_be_bytes(raw) == [i \in 1..Len(raw) |-> raw[Len(raw) + 1 - i]]

\* while !slice.is_empty() && slice[0] == 0 { slice = &slice[1..]; }
RECURSIVE skip_leading_zeros(_)
skip_leading_zeros(slice) ==
    IF slice # <<>> /\ slice[1] = 0 THEN skip_leading_zeros(Tail(slice)) ELSE slice

\* v.as_bytes() of the strings the model uses
as_bytes(v) ==
    CASE v = "a" -> <<97>>
      [] v = "b" -> <<98>>
      [] v = "V" -> <<86>>
      [] v = TAGGED -> <<64, 64, 84, 65, 71, 71, 69, 68, 64, 64>>
      [] v = UNTAGGED -> <<64, 64, 85, 78, 84, 65, 71, 71, 69, 68, 64, 64>>

(***************************************************************************)
(* The encoder: the sink with the headers and byte runs written so far.    *)
(* fail = k > 0 means the k-th write from now is refused by the writer;    *)
(* fail = 0 means the writer accepts everything.                           *)
(***************************************************************************)
Encoder(out, fail) == [out |-> out, fail |-> fail, res |-> "ok", flushed |-> 0]

Write(s, item) ==
    IF s.fail = 1 THEN [s EXCEPT !.res = "io", !.fail = 0]
    ELSE [s EXCEPT !.out = Append(@, item), !.fail = IF @ = 0 THEN 0 ELSE @ - 1]

push(s, header) == Write(s, header)
write_all(s, bytes) == Write(s, Raw(bytes))
flush(s) ==
    IF s.fail = 1 THEN [s EXCEPT !.res = "io", !.fail = 0]
    ELSE [s EXCEPT !.flushed = @ + 1, !.fail = IF @ = 0 THEN 0 ELSE @ - 1]

Ok(s) == s.res = "ok"

(***************************************************************************)
(* Values of the generic data model, as the caller presents them:          *)
(* t is the shape, b the digits of an integer (or str a string),   *)
(* items the children.                                                     *)
(***************************************************************************)
V(t, b, str, items) == [t |-> t, b |-> b, str |-> str, items |-> items]
NoValue == V("-", <<>>, "", <<>>)
IntV(t, b) == V(t, b, "", <<>>)
StrV(str) == V("str", <<>>, str, <<>>)

\* A type (target shape) and a value with its type.
Ty(t, of) == [t |-> t, of |-> of]
NoType == Ty("-", <<>>)
Typed(ty, v) == [ty |-> ty, v |-> v]
NotDecoded == [reader |-> NoValue, slice |-> NoValue]

(***************************************************************************)
(* impl ser::Serializer for &mut Serializer<W>: the scalar handlers.       *)
(* Each takes the encoder and returns it; res # "ok" is the Err return.    *)
(***************************************************************************)
\* Mutation of serialize_i64: the negative case without the complement.
serialize_i64_no_complement(s, v) ==
    push(s, IF is_negative(v) THEN Negative(v) ELSE Positive(v))

serialize_i64(s, v) ==
    push(s, IF is_negative(v) THEN Negative(xor_not0(v)) ELSE Positive(v))

serialize_i8(s, v) == serialize_i64(s, sign_extend(v, U64Bytes))
serialize_i16(s, v) == serialize_i64(s, sign_extend(v, U64Bytes))
serialize_i32(s, v) == serialize_i64(s, sign_extend(v, U64Bytes))

serialize_i128(s, v) ==
    LET tag == IF is_negative(v) THEN BIGNEG ELSE BIGPOS
        raw == IF is_negative(v) THEN xor_not0(v) ELSE v
        x == u64_try_from(raw)
    IN  IF x.ok
        THEN push(s, IF tag = BIGPOS THEN Positive(x.x) ELSE Negative(x.x))
        ELSE LET slice == skip_leading_zeros(to_be_bytes(raw))
                 s1 == push(s, Tag(U64(tag)))
                 s2 == IF Ok(s1) THEN push(s1, Bytes(Some(Len(slice)))) ELSE s1
             IN  IF Ok(s2) THEN write_all(s2, slice) ELSE s2

serialize_u64(s, v) == push(s, Positive(v))

serialize_u8(s, v) == serialize_u64(s, zero_extend(v, U64Bytes))
serialize_u16(s, v) == serialize_u64(s, zero_extend(v, U64Bytes))
serialize_u32(s, v) == serialize_u64(s, zero_extend(v, U64Bytes))

serialize_u128(s, v) ==
    LET x == u64_try_from(v)
    IN  IF x.ok
        THEN serialize_u64(s, x.x)
        ELSE LET slice == skip_leading_zeros(to_be_bytes(v))
                 s1 == push(s, Tag(U64(BIGPOS)))
                 s2 == IF Ok(s1) THEN push(s1, Bytes(Some(Len(slice)))) ELSE s1
             IN  IF Ok(s2) THEN write_all(s2, slice) ELSE s2

\* Mutation of serialize_str: the result of the header push is not checked.
serialize_str_unchecked(s, v) ==
    LET bytes == as_bytes(v)
        s1 == push(s, Text(Some(Len(bytes))))
    IN  [write_all(s1, bytes) EXCEPT !.res = s1.res]

serialize_str(s, v) ==
    LET bytes == as_bytes(v)
        s1 == push(s, Text(Some(Len(bytes))))
    IN  IF Ok(s1) THEN write_all(s1, bytes) ELSE s1

serialize_none(s) == push(s, Simple(NULL))

serialize_unit(s) == serialize_none(s)

serialize_unit_struct(s) == serialize_unit(s)

(***************************************************************************)
(* The wrappers: what each writes before it hands the inner value to       *)
(* value.serialize(self).                                                  *)
(***************************************************************************)
serialize_some(s) == s

serialize_newtype_struct(s) == s

\* Mutation of serialize_newtype_variant: && in place of ||.
serialize_newtype_variant_and(s, name, variant) ==
    IF name # TAG /\ variant # UNTAGGED
    THEN LET s1 == push(s, Map(Some(1)))
         IN  IF Ok(s1) THEN serialize_str(s1, variant) ELSE s1
    ELSE s

serialize_newtype_variant(s, name, variant) ==
    IF name # TAG \/ variant # UNTAGGED
    THEN LET s1 == push(s, Map(Some(1)))
         IN  IF Ok(s1) THEN serialize_str(s1, variant) ELSE s1
    ELSE s

(***************************************************************************)
(* The collection openers: each returns the encoder and the                *)
(* CollectionSerializer it constructs (meaningful when res = "ok").        *)
(***************************************************************************)
CollectionSerializer(ending, tag) == [ending |-> ending, tag |-> tag]

Opened(s, coll) == [s |-> s, coll |-> coll]

\* Mutation of serialize_seq: ending set for the declared lengths.
serialize_seq_inverted(s, length) ==
    Opened(push(s, Array(length)), CollectionSerializer(length # None, FALSE))

serialize_seq(s, length) ==
    Opened(push(s, Array(length)), CollectionSerializer(length = None, FALSE))

serialize_tuple(s, length) == serialize_seq(s, Some(length))

serialize_tuple_struct(s, length) == serialize_seq(s, Some(length))

serialize_tuple_variant(s, name, variant, length) ==
    IF name = TAG /\ variant = TAGGED
    THEN Opened(s, CollectionSerializer(FALSE, TRUE))
    ELSE LET s1 == push(s, Map(Some(1)))
             s2 == IF Ok(s1) THEN serialize_str(s1, variant) ELSE s1
             s3 == IF Ok(s2) THEN push(s2, Array(Some(length))) ELSE s2
         IN  Opened(s3, CollectionSerializer(FALSE, FALSE))

serialize_map(s, length) ==
    Opened(push(s, Map(length)), CollectionSerializer(length = None, FALSE))

serialize_struct(s, length) ==
    Opened(push(s, Map(Some(length))), CollectionSerializer(FALSE, FALSE))

serialize_struct_variant(s, variant, length) ==
    LET s1 == push(s, Map(Some(1)))
        s2 == IF Ok(s1) THEN serialize_str(s1, variant) ELSE s1
        s3 == IF Ok(s2) THEN push(s2, Map(Some(length))) ELSE s2
    IN  Opened(s3, CollectionSerializer(FALSE, FALSE))

(***************************************************************************)
(* The tag extraction helper (crate::tag::Serializer): Ok(x) for the       *)
(* unsigned shapes up to 64 bits, an error for every other shape.          *)
(***************************************************************************)
tag_serialize(v) ==
    IF v.t \in {"u8", "u16", "u32", "u64"}
    THEN [ok |-> TRUE, x |-> zero_extend(v.b, U64Bytes)]
    ELSE [ok |-> FALSE, x |-> <<>>]

(***************************************************************************)
(* The CollectionSerializer handlers.  Each returns the encoder, the       *)
(* collection state, and whether the handler goes on to                    *)
(* value.serialize(&mut *self.serializer) (next = "value") or returns.     *)
(***************************************************************************)
Handled(s, coll, next) == [s |-> s, coll |-> coll, next |-> next]

\* Mutation of end: the Break is pushed whatever ending says.
end_always(s, coll) == push(s, Break)

end(s, coll) == IF coll.ending THEN push(s, Break) ELSE s

SerializeSeq_serialize_element(s, coll) == Handled(s, coll, "value")

SerializeTuple_serialize_element(s, coll) == Handled(s, coll, "value")

SerializeTupleStruct_serialize_field(s, coll) == Handled(s, coll, "value")

\* Mutations of SerializeTupleVariant::serialize_field: tag is not cleared;
\* a failed extraction is taken for tag 0.
SerializeTupleVariant_serialize_field_keeps_tag(s, coll, v) ==
    IF ~coll.tag
    THEN Handled(s, coll, "value")
    ELSE LET x == tag_serialize(v)
         IN  IF x.ok
             THEN Handled(push(s, Tag(x.x)), coll, "return")
             ELSE Handled([s EXCEPT !.res = "value"], coll, "return")

SerializeTupleVariant_serialize_field_default(s, coll, v) ==
    IF ~coll.tag
    THEN Handled(s, coll, "value")
    ELSE LET x == tag_serialize(v)
             cleared == [coll EXCEPT !.tag = FALSE]
         IN  Handled(push(s, Tag(IF x.ok THEN x.x ELSE U64(0))), cleared, "return")

SerializeTupleVariant_serialize_field(s, coll, v) ==
    IF ~coll.tag
    THEN Handled(s, coll, "value")
    ELSE LET x == tag_serialize(v)
             cleared == [coll EXCEPT !.tag = FALSE]
         IN  IF x.ok
             THEN Handled(push(s, Tag(x.x)), cleared, "return")
             ELSE Handled([s EXCEPT !.res = "value"], cleared, "return")

SerializeMap_serialize_key(s, coll) == Handled(s, coll, "value")

SerializeMap_serialize_value(s, coll) == Handled(s, coll, "value")

\* Mutation of SerializeStruct::serialize_field: the key is not written.
SerializeStruct_serialize_field_no_key(s, coll, key) == Handled(s, coll, "value")

SerializeStruct_serialize_field(s, coll, key) ==
    LET s1 == serialize_str(s, key)
    IN  Handled(s1, coll, IF Ok(s1) THEN "value" ELSE "return")

SerializeStructVariant_serialize_field(s, coll, key) ==
    LET s1 == serialize_str(s, key)
    IN  Handled(s1, coll, IF Ok(s1) THEN "value" ELSE "return")

(***************************************************************************)
(* The serializer as a state machine.  The caller (the Serialize impl of   *)
(* the value handed to into_writer) drives the handlers; stack holds the   *)
(* live CollectionSerializers, innermost last, each with what the caller   *)
(* declared and did (kind, len, items, open, fields are bookkeeping of the *)
(* model, ending and tag are the fields of the struct).                    *)
(*   pc = "value": a value.serialize(serializer) call is about to run      *)
(*   pc = "coll" : the innermost CollectionSerializer awaits a call        *)
(*   pc = "flush": into_writer is about to flush                           *)
(*   pc = "done" / "failed": into_writer has returned Ok / Err(result)     *)
(* A caller that gets an Err returns it at once (the `?` of every          *)
(* Serialize impl), so a failure unwinds the whole stack.                  *)
(***************************************************************************)
Names == {TAG, "E"}
Variants == {TAGGED, UNTAGGED, "V"}
Keys == {"a", "b"}
Counts == {2}
Lengths == {None} \cup {Some(n) : n \in Counts}
\* Which write of a handler the writer refuses (0: none); no handler makes
\* more than four.
Fails == {0, 1, 2, 3, 4}
I64Menu == {sign_extend(<<255>>, U64Bytes)}
FirstFields ==
    {IntV("u8", <<42>>), IntV("u16", <<1, 1>>), IntV("u32", <<0, 0, 0, 1>>),
     IntV("u64", U64(42)), IntV("i8", <<5>>), IntV("i64", Fill(255, U64Bytes)),
     StrV("a"), V("f64", <<>>, "", <<>>), V("seq", <<>>, "", <<>>),
     V("none", <<>>, "", <<>>)}

Frame(kind, coll, len, open) ==
    [kind |-> kind, ending |-> coll.ending, tag |-> coll.tag, len |-> len,
     items |-> 0, open |-> open, fields |-> <<>>, sentinel |-> FALSE]

Top == stack[Len(stack)]
Pop(stk) == SubSeq(stk, 1, Len(stk) - 1)
SetTop(stk, fr) == [stk EXCEPT ![Len(stk)] = fr]
CollOf(fr) == CollectionSerializer(fr.ending, fr.tag)
WithColl(fr, coll) == [fr EXCEPT !.ending = coll.ending, !.tag = coll.tag]

Call(op, name, variant, len, key, first) ==
    [op |-> op, name |-> name, variant |-> variant, len |-> len, key |-> key,
     first |-> first]
Called(op) == Call(op, "", "", None, "", NoValue)

\* Where control goes when a value.serialize call returns Ok.
ValueDone(stk) == IF stk = <<>> THEN "flush" ELSE "coll"

\* The state after a handler that left the encoder as s.
Step(s, okpc, okstack) ==
    /\ sink' = s.out
    /\ IF Ok(s)
       THEN pc' = okpc /\ stack' = okstack /\ result' = result
       ELSE pc' = "failed" /\ stack' = <<>> /\ result' = s.res
    /\ calls' = calls + 1
    /\ UNCHANGED <<flushed, value, decoded>>

\* The caller makes at most MaxCalls calls besides end.
Room == calls < MaxCalls

Init ==
    /\ sink = <<>>
    /\ result = "pending"
    /\ pc = "value"
    /\ stack = <<>>
    /\ call = Called("into_writer")
    /\ calls = 0
    /\ flushed = 0
    /\ value = Typed(NoType, NoValue)
    /\ decoded = NotDecoded

SerializeI64(v, f) ==
    /\ pc = "value" /\ Room
    /\ Step(serialize_i64(Encoder(sink, f), v), ValueDone(stack), stack)
    /\ call' = Call("serialize_i64", "", "", None, "", IntV("i64", v))

SerializeStr(v, f) ==
    /\ pc = "value" /\ Room
    /\ Step(serialize_str(Encoder(sink, f), v), ValueDone(stack), stack)
    /\ call' = Call("serialize_str", "", "", None, "", StrV(v))

SerializeNone(f) ==
    /\ pc = "value" /\ Room
    /\ Step(serialize_none(Encoder(sink, f)), ValueDone(stack), stack)
    /\ call' = Called("serialize_none")

SerializeNewtypeVariant(name, variant, f) ==
    /\ pc = "value" /\ Room
    /\ Step(serialize_newtype_variant(Encoder(sink, f), name, variant), "value", stack)
    /\ call' = Call("serialize_newtype_variant", name, variant, None, "", NoValue)

\* An opener: on Ok the new CollectionSerializer is the innermost one.
Open(kind, r, len) ==
    Step(r.s, "coll", Append(stack, Frame(kind, r.coll, len, Len(r.s.out))))

CanOpen == pc = "value" /\ Room

SerializeSeq(length, f) ==
    /\ CanOpen
    /\ Open("seq", serialize_seq(Encoder(sink, f), length), length)
    /\ call' = Call("serialize_seq", "", "", length, "", NoValue)

SerializeTuple(n, f) ==
    /\ CanOpen
    /\ Open("tuple", serialize_tuple(Encoder(sink, f), n), Some(n))
    /\ call' = Call("serialize_tuple", "", "", Some(n), "", NoValue)

SerializeTupleStruct(n, f) ==
    /\ CanOpen
    /\ Open("tuple_struct", serialize_tuple_struct(Encoder(sink, f), n), Some(n))
    /\ call' = Call("serialize_tuple_struct", "", "", Some(n), "", NoValue)

SerializeTupleVariant(name, variant, n, f) ==
    /\ CanOpen
    /\ LET r == serialize_tuple_variant(Encoder(sink, f), name, variant, n)
           fr == [Frame("tuple_variant", r.coll, Some(n), Len(r.s.out)) EXCEPT
                      !.sentinel = (name = TAG /\ variant = TAGGED)]
       IN  Step(r.s, "coll", Append(stack, fr))
    /\ call' = Call("serialize_tuple_variant", name, variant, Some(n), "", NoValue)

SerializeMap(length, f) ==
    /\ CanOpen
    /\ Open("map", serialize_map(Encoder(sink, f), length), length)
    /\ call' = Call("serialize_map", "", "", length, "", NoValue)

SerializeStruct(n, f) ==
    /\ CanOpen
    /\ Open("struct", serialize_struct(Encoder(sink, f), n), Some(n))
    /\ call' = Call("serialize_struct", "", "", Some(n), "", NoValue)

SerializeStructVariant(variant, n, f) ==
    /\ CanOpen
    /\ Open("struct_variant",
            serialize_struct_variant(Encoder(sink, f), variant, n), Some(n))
    /\ call' = Call("serialize_struct_variant", "", variant, Some(n), "", NoValue)

\* A call on the innermost CollectionSerializer of the given kind.
CanCall(kind) ==
    /\ pc = "coll" /\ stack # <<>> /\ Top.kind = kind
    /\ Room

\* The state after a collection handler returned r; key is the field name
\* it was given ("" when the handler takes none).
Field(r, key) ==
    LET fr == [WithColl(Top, r.coll) EXCEPT
                   !.items = @ + 1,
                   !.fields = IF key = "" THEN @
                              ELSE Append(@, [key |-> key, at |-> Len(sink) + 1])]
    IN  Step(r.s, IF r.next = "value" THEN "value" ELSE "coll", SetTop(stack, fr))

SeqElement ==
    /\ CanCall("seq")
    /\ Field(SerializeSeq_serialize_element(Encoder(sink, 0), CollOf(Top)), "")
    /\ call' = Called("SerializeSeq::serialize_element")

TupleElement ==
    /\ CanCall("tuple")
    /\ Field(SerializeTuple_serialize_element(Encoder(sink, 0), CollOf(Top)), "")
    /\ call' = Called("SerializeTuple::serialize_element")

TupleStructField ==
    /\ CanCall("tuple_struct")
    /\ Field(SerializeTupleStruct_serialize_field(Encoder(sink, 0), CollOf(Top)), "")
    /\ call' = Called("SerializeTupleStruct::serialize_field")

TupleVariantField(v, f) ==
    /\ CanCall("tuple_variant")
    /\ Top.tag \/ v = NoValue
    /\ ~Top.tag \/ v # NoValue
    /\ Field(SerializeTupleVariant_serialize_field(Encoder(sink, f), CollOf(Top), v), "")
    /\ call' = Call("SerializeTupleVariant::serialize_field", "", "", None, "", v)

MapKey ==
    /\ CanCall("map")
    /\ Field(SerializeMap_serialize_key(Encoder(sink, 0), CollOf(Top)), "")
    /\ call' = Called("SerializeMap::serialize_key")

MapValue ==
    /\ CanCall("map")
    /\ Field(SerializeMap_serialize_value(Encoder(sink, 0), CollOf(Top)), "")
    /\ call' = Called("SerializeMap::serialize_value")

StructField(key, f) ==
    /\ CanCall("struct")
    /\ Field(SerializeStruct_serialize_field(Encoder(sink, f), CollOf(Top), key), key)
    /\ call' = Call("SerializeStruct::serialize_field", "", "", None, key, NoValue)

StructVariantField(key, f) ==
    /\ CanCall("struct_variant")
    /\ Field(SerializeStructVariant_serialize_field(Encoder(sink, f), CollOf(Top), key),
             key)
    /\ call' = Call("SerializeStructVariant::serialize_field", "", "", None, key, NoValue)

End(f) ==
    /\ pc = "coll" /\ stack # <<>>
    /\ Step(end(Encoder(sink, f), CollOf(Top)), ValueDone(Pop(stack)), Pop(stack))
    /\ call' = Called("end")

\* into_writer after value.serialize(&mut serializer)? returned Ok
Flush(f) ==
    /\ pc = "flush"
    /\ LET s == flush(Encoder(sink, f))
       IN  /\ flushed' = flushed + s.flushed
           /\ pc' = IF Ok(s) THEN "done" ELSE "failed"
           /\ result' = s.res
    /\ call' = Called("flush")
    /\ UNCHANGED <<sink, stack, calls, value, decoded>>

Next ==
    \/ \E v \in I64Menu, f \in Fails : SerializeI64(v, f)
    \/ \E v \in {"a"}, f \in Fails : SerializeStr(v, f)
    \/ \E f \in Fails : SerializeNone(f)
    \/ \E name \in Names, variant \in Variants, f \in Fails :
           SerializeNewtypeVariant(name, variant, f)
    \/ \E length \in Lengths, f \in Fails : SerializeSeq(length, f)
    \/ \E n \in Counts, f \in Fails : SerializeTuple(n, f)
    \/ \E n \in Counts, f \in Fails : SerializeTupleStruct(n, f)
    \/ \E name \in Names, variant \in Variants, n \in Counts, f \in Fails :
           SerializeTupleVariant(name, variant, n, f)
    \/ \E length \in Lengths, f \in Fails : SerializeMap(length, f)
    \/ \E n \in Counts, f \in Fails : SerializeStruct(n, f)
    \/ \E n \in Counts, f \in Fails : SerializeStructVariant("V", n, f)
    \/ SeqElement
    \/ TupleElement
    \/ TupleStructField
    \/ \E v \in FirstFields \cup {NoValue}, f \in Fails : TupleVariantField(v, f)
    \/ MapKey
    \/ MapValue
    \/ \E key \in Keys, f \in Fails : StructField(key, f)
    \/ \E key \in Keys, f \in Fails : StructVariantField(key, f)
    \/ \E f \in Fails : End(f)
    \/ \E f \in Fails : Flush(f)

Spec == Init /\ [][Next]_vars

(***************************************************************************)
(* Encoding whole values.  Serialize(v, s) is value.serialize(serializer): *)
(* the Serialize impl of each shape calls the handler of that shape, and a *)
(* collection's impl opens it, serializes each item through the element    *)
(* handler and ends it, returning at the first Err.                        *)
(***************************************************************************)
RECURSIVE Serialize(_, _), SerializeElements(_, _, _, _)

SerializeElements(kind, items, s, coll) ==
    IF items = <<>> THEN end(s, coll)
    ELSE LET r == CASE kind = "seq" -> SerializeSeq_serialize_element(s, coll)
                    [] kind = "tuple" -> SerializeTuple_serialize_element(s, coll)
                    [] kind = "tuple_struct" ->
                           SerializeTupleStruct_serialize_field(s, coll)
             s1 == IF Ok(r.s) /\ r.next = "value" THEN Serialize(Head(items), r.s)
                   ELSE r.s
         IN  IF Ok(s1) THEN SerializeElements(kind, Tail(items), s1, r.coll) ELSE s1

Serialize(v, s) ==
    CASE v.t = "i8" -> serialize_i8(s, v.b)
      [] v.t = "i16" -> serialize_i16(s, v.b)
      [] v.t = "i32" -> serialize_i32(s, v.b)
      [] v.t = "i64" -> serialize_i64(s, v.b)
      [] v.t = "i128" -> serialize_i128(s, v.b)
      [] v.t = "u8" -> serialize_u8(s, v.b)
      [] v.t = "u16" -> serialize_u16(s, v.b)
      [] v.t = "u32" -> serialize_u32(s, v.b)
      [] v.t = "u64" -> serialize_u64(s, v.b)
      [] v.t = "u128" -> serialize_u128(s, v.b)
      [] v.t = "unit" -> serialize_unit(s)
      [] v.t = "unit_struct" -> serialize_unit_struct(s)
      [] v.t = "none" -> serialize_none(s)
      [] v.t = "some" ->
             LET s1 == serialize_some(s)
             IN  IF Ok(s1) THEN Serialize(v.items[1], s1) ELSE s1
      [] v.t = "newtype_struct" ->
             LET s1 == serialize_newtype_struct(s)
             IN  IF Ok(s1) THEN Serialize(v.items[1], s1) ELSE s1
      [] v.t \in {"seq", "tuple", "tuple_struct"} ->
             LET n == Len(v.items)
                 r == CASE v.t = "seq" -> serialize_seq(s, Some(n))
                        [] v.t = "tuple" -> serialize_tuple(s, n)
                        [] v.t = "tuple_struct" -> serialize_tuple_struct(s, n)
             IN  IF Ok(r.s) THEN SerializeElements(v.t, v.items, r.s, r.coll) ELSE r.s

\* into_writer(value, writer)
into_writer(v, s) ==
    LET s1 == Serialize(v, s)
    IN  IF Ok(s1) THEN flush(s1) ELSE s1

(***************************************************************************)
(* The types (target shapes) and the values of each that Init draws from.  *)
(***************************************************************************)

Width(t) ==
    CASE t \in {"i8", "u8"} -> 1
      [] t \in {"i16", "u16"} -> 2
      [] t \in {"i32", "u32"} -> 4
      [] t \in {"i64", "u64"} -> 8
      [] t \in {"i128", "u128"} -> 16

IntTypes == {"i8", "i16", "i32", "i64", "i128", "u8", "u16", "u32", "u64", "u128"}
Signed(t) == t \in {"i8", "i16", "i32", "i64", "i128"}

\* The integers of n digits: k low digits lo, one digit hd, the rest hi.
Pattern(n, k, lo, hd, hi) ==
    [i \in 1..n |-> IF i <= k THEN lo ELSE IF i = k + 1 THEN hd ELSE hi]
IntsOf(n) ==
    {Pattern(n, k, lo, hd, hi) :
        k \in 0..(n - 1), lo \in {0, 255}, hd \in {0, 1, 127, 128, 254, 255},
        hi \in {0, 255}}

Small(t) == {IntV(t, UInt(x, Width(t))) : x \in {1, 2, 3}}

RECURSIVE Seqs(_, _)
Seqs(S, n) ==
    IF n = 0 THEN {<<>>}
    ELSE Seqs(S, n - 1) \cup {Append(q, x) : q \in Seqs(S, n - 1), x \in S}

RECURSIVE ValuesOf(_)
ValuesOf(ty) ==
    CASE ty.t \in IntTypes -> {IntV(ty.t, b) : b \in IntsOf(Width(ty.t))}
      [] ty.t = "small" -> Small(ty.of[1].t)
      [] ty.t \in {"unit", "unit_struct"} -> {V(ty.t, <<>>, "", <<>>)}
      [] ty.t = "option" ->
             {V("none", <<>>, "", <<>>)}
                 \cup {V("some", <<>>, "", <<x>>) : x \in ValuesOf(ty.of[1])}
      [] ty.t = "newtype_struct" ->
             {V("newtype_struct", <<>>, "", <<x>>) : x \in ValuesOf(ty.of[1])}
      [] ty.t \in {"seq", "tuple", "tuple_struct"} ->
             {V(ty.t, <<>>, "", q) : q \in Seqs(ValuesOf(ty.of[1]), MaxSeq)}

\* Option nested n deep around ty.
RECURSIVE Nested(_, _)
Nested(ty, n) == IF n = 0 THEN ty ELSE Ty("option", <<Nested(ty, n - 1)>>)

ScalarTypes == {Ty(t, <<>>) : t \in IntTypes \cup {"unit", "unit_struct"}}
SmallI32 == Ty("small", <<Ty("i32", <<>>)>>)
Types ==
    ScalarTypes
        \cup {Nested(ty, n) :
                  ty \in {Ty("u8", <<>>), Ty("i8", <<>>), Ty("unit", <<>>), SmallI32},
                  n \in 1..MaxNest}
        \cup {Ty(t, <<SmallI32>>) : t \in {"seq", "tuple", "tuple_struct"}}
        \cup {Ty("newtype_struct", <<Ty("option", <<Ty("u8", <<>>)>>)>>),
              Ty("seq", <<Ty("option", <<SmallI32>>)>>)}

InitValue ==
    /\ sink = <<>>
    /\ result = "pending"
    /\ pc = "start"
    /\ stack = <<>>
    /\ call = Called("-")
    /\ calls = 0
    /\ flushed = 0
    /\ \E ty \in Types : \E v \in ValuesOf(ty) : value = Typed(ty, v)
    /\ decoded = NotDecoded

IntoWriter(f) ==
    /\ pc = "start"
    /\ LET s == into_writer(value.v, Encoder(<<>>, f))
       IN  /\ sink' = s.out
           /\ flushed' = s.flushed
           /\ result' = s.res
           /\ pc' = IF Ok(s) THEN "done" ELSE "failed"
    /\ call' = Called("into_writer")
    /\ UNCHANGED <<stack, calls, value, decoded>>


(***************************************************************************)
(* The header codec's wire form (RFC 8949): the major type in the top      *)
(* three bits, then the argument at its minimal width, big-endian.         *)
(***************************************************************************)
Significant(x) ==
    IF \A i \in DOMAIN x : x[i] = 0 THEN 0
    ELSE CHOOSE k \in DOMAIN x : x[k] # 0 /\ \A i \in (k + 1)..Len(x) : x[i] = 0

Argument(major, x) ==
    LET k == Significant(x)
        be(n) == [i \in 1..n |-> x[n + 1 - i]]
    IN  IF k <= 1 /\ x[1] < 24 THEN <<major * 32 + x[1]>>
        ELSE IF k <= 1 THEN <<major * 32 + 24>> \o be(1)
        ELSE IF k <= 2 THEN <<major * 32 + 25>> \o be(2)
        ELSE IF k <= 4 THEN <<major * 32 + 26>> \o be(4)
        ELSE <<major * 32 + 27>> \o be(8)

Length(major, len) ==
    IF len = None THEN <<major * 32 + 31>> ELSE Argument(major, U64(len[1]))

encode_header(item) ==
    CASE item.h = "Positive" -> Argument(0, item.a)
      [] item.h = "Negative" -> Argument(1, item.a)
      [] item.h = "Bytes" -> Length(2, item.a)
      [] item.h = "Text" -> Length(3, item.a)
      [] item.h = "Array" -> Length(4, item.a)
      [] item.h = "Map" -> Length(5, item.a)
      [] item.h = "Tag" -> Argument(6, item.a)
      [] item.h = "Simple" -> <<7 * 32 + item.a[1]>>
      [] item.h = "Break" -> <<255>>
      [] item.h = "raw" -> item.a

RECURSIVE Wire(_)
Wire(out) == IF out = <<>> THEN <<>> ELSE encode_header(Head(out)) \o Wire(Tail(out))

(***************************************************************************)
(* The value deserializer, reading headers: deserialize(ty, input) is the  *)
(* value of target shape ty at the front of input, with the input left.    *)
(***************************************************************************)
Decoded(v, rest) == [ok |-> TRUE, v |-> v, rest |-> rest]
DecodeError == [ok |-> FALSE, v |-> V("error", <<>>, "", <<>>), rest |-> <<>>]

\* A u64 header argument as an integer of type t, if it fits.
FitsIn(x, t) ==
    /\ \A i \in (Width(t) + 1)..Len(x) : x[i] = 0
    /\ Signed(t) /\ Width(t) <= U64Bytes => x[Width(t)] < 128

deserialize_integer(t, input) ==
    LET n == Width(t)
        hd == Head(input)
        low(x) == [i \in 1..n |-> IF i <= Len(x) THEN x[i] ELSE 0]
    IN  IF input = <<>> THEN DecodeError
        ELSE IF hd.h = "Positive" /\ FitsIn(hd.a, t)
        THEN Decoded(IntV(t, low(hd.a)), Tail(input))
        ELSE IF hd.h = "Negative" /\ Signed(t) /\ FitsIn(hd.a, t)
        THEN Decoded(IntV(t, xor_not0(low(hd.a))), Tail(input))
        ELSE IF /\ hd.h = "Tag" /\ n = U128Bytes /\ Len(input) >= 3
                /\ hd.a \in {U64(BIGPOS)} \cup (IF Signed(t) THEN {U64(BIGNEG)} ELSE {})
                /\ input[2].h = "Bytes" /\ input[2].a # None
                /\ input[3].h = "raw" /\ Len(input[3].a) = input[2].a[1]
                /\ Len(input[3].a) <= n
        THEN LET bytes == input[3].a
                 raw == [i \in 1..n |->
                            IF i <= Len(bytes) THEN bytes[Len(bytes) + 1 - i] ELSE 0]
             IN  IF Signed(t) /\ raw[n] >= 128 THEN DecodeError
                 ELSE Decoded(IntV(t, IF hd.a = U64(BIGNEG) THEN xor_not0(raw) ELSE raw),
                              SubSeq(input, 4, Len(input)))
        ELSE DecodeError

RECURSIVE deserialize(_, _), deserialize_elements(_, _, _, _)

\* n = -1: until Break
deserialize_elements(ty, n, input, acc) ==
    IF n = 0 THEN Decoded(acc, input)
    ELSE IF n < 0 /\ input # <<>> /\ Head(input) = Break THEN Decoded(acc, Tail(input))
    ELSE LET r == deserialize(ty, input)
         IN  IF r.ok
             THEN deserialize_elements(ty, IF n < 0 THEN n ELSE n - 1, r.rest,
                                       Append(acc, r.v))
             ELSE DecodeError

deserialize(ty, input) ==
    CASE ty.t \in IntTypes -> deserialize_integer(ty.t, input)
      [] ty.t = "small" -> deserialize(ty.of[1], input)
      [] ty.t \in {"unit", "unit_struct"} ->
             IF input # <<>> /\ Head(input) = Simple(NULL)
             THEN Decoded(V(ty.t, <<>>, "", <<>>), Tail(input))
             ELSE DecodeError
      [] ty.t = "option" ->
             IF input # <<>> /\ Head(input) = Simple(NULL)
             THEN Decoded(V("none", <<>>, "", <<>>), Tail(input))
             ELSE LET r == deserialize(ty.of[1], input)
                  IN  IF r.ok THEN Decoded(V("some", <<>>, "", <<r.v>>), r.rest)
                      ELSE DecodeError
      [] ty.t = "newtype_struct" ->
             LET r == deserialize(ty.of[1], input)
             IN  IF r.ok THEN Decoded(V("newtype_struct", <<>>, "", <<r.v>>), r.rest)
                 ELSE DecodeError
      [] ty.t \in {"seq", "tuple", "tuple_struct"} ->
             IF input # <<>> /\ Head(input).h = "Array"
             THEN LET len == Head(input).a
                      r == deserialize_elements(ty.of[1],
                                                IF len = None THEN -1 ELSE len[1],
                                                Tail(input), <<>>)
                  IN  IF r.ok THEN Decoded(V(ty.t, <<>>, "", r.v), r.rest)
                      ELSE DecodeError
             ELSE DecodeError

\* Deserializer::from_reader(..) and Deserializer::from_slice(..), then
\* Deserialize::deserialize as the value's own type.
FromReader ==
    /\ pc = "done"
    /\ decoded' = [decoded EXCEPT !.reader = deserialize(value.ty, sink).v]
    /\ pc' = "read"
    /\ call' = Called("from_reader")
    /\ UNCHANGED <<sink, result, stack, calls, flushed, value>>

FromSlice ==
    /\ pc = "read"
    /\ decoded' = [decoded EXCEPT !.slice = deserialize(value.ty, sink).v]
    /\ pc' = "checked"
    /\ call' = Called("from_slice")
    /\ UNCHANGED <<sink, result, stack, calls, flushed, value>>

NextValue ==
    \/ \E f \in Fails : IntoWriter(f)
    \/ FromReader
    \/ FromSlice

SpecValue == InitValue /\ [][NextValue]_vars

(***************************************************************************)
(* Properties of the serializer driven call by call (Spec).                *)
(***************************************************************************)
Running == pc \in {"value", "coll", "flush", "done"}
StepOf(op) == call'.op = op /\ <<pc, sink, stack, calls>> # <<pc', sink', stack', calls'>>

\* The positions of the unknown-length Array/Map headers of out that no
\* later Break has closed, outermost first; <<0>> once a Break closes nothing.
RECURSIVE Unclosed(_, _, _)
Unclosed(out, i, acc) ==
    IF i > Len(out) THEN acc
    ELSE IF out[i] \in {Array(None), Map(None)} THEN Unclosed(out, i + 1, Append(acc, i))
    ELSE IF out[i] = Break
    THEN IF acc = <<>> THEN <<0>> ELSE Unclosed(out, i + 1, Pop(acc))
    ELSE Unclosed(out, i + 1, acc)

RECURSIVE EndingOpens(_)
EndingOpens(stk) ==
    IF stk = <<>> THEN <<>>
    ELSE IF stk[Len(stk)].ending THEN Append(EndingOpens(Pop(stk)), stk[Len(stk)].open)
    ELSE EndingOpens(Pop(stk))

OpenedUnknown(fr) == fr.kind \in {"seq", "map"} /\ fr.len = None

\* C2: a collection closes with exactly one Break iff it was opened with
\* unknown length: at every point of an encode the unknown-length headers in
\* the sink that no Break has closed yet are exactly those of the live
\* unknown-length collections, innermost last, so each Break closes the
\* last-opened one, after its children and before anything else of its
\* parent; a collection opened with a declared length adds no Break whatever
\* the number of items serialized into it; a completed encode has no
\* unclosed header and no Break that closes nothing.
C2_BreakDiscipline ==
    Running =>
        /\ \A i \in DOMAIN stack : stack[i].ending <=> OpenedUnknown(stack[i])
        /\ Unclosed(sink, 1, <<>>) = EndingOpens(stack)

C2_Witness ==
    /\ pc = "done" /\ result = "ok"
    /\ sink = <<Array(None), Map(None), Array(Some(2)), Break, Break>>

\* C3: a (TAG, TAGGED) tuple-variant writes nothing when it opens and has
\* tag set and ending clear; its first field, an unsigned integer N, writes
\* Tag(N) and only that, and clears tag; a field serialized with tag clear
\* writes nothing itself and is followed by the ordinary encoding of its
\* value; tag never becomes true again; end writes nothing.
C3_TagConstruct ==
    [][/\ (StepOf("serialize_tuple_variant") /\ call'.name = TAG /\ call'.variant = TAGGED)
            => /\ sink' = sink /\ pc' = "coll"
               /\ stack'[Len(stack')].tag /\ ~stack'[Len(stack')].ending
       /\ (/\ StepOf("SerializeTupleVariant::serialize_field") /\ Top.sentinel
           /\ Top.items = 0 /\ call'.first.t \in {"u8", "u16", "u32", "u64"}
           /\ pc' # "failed")
            => /\ Top.tag
               /\ sink' = Append(sink, Tag(zero_extend(call'.first.b, U64Bytes)))
               /\ pc' = "coll" /\ ~stack'[Len(stack')].tag
       /\ (/\ StepOf("SerializeTupleVariant::serialize_field") /\ Top.sentinel
           /\ Top.items > 0)
            => ~Top.tag /\ sink' = sink /\ pc' = "value"
       /\ (StepOf("end") /\ Top.sentinel) => sink' = sink /\ pc' # "failed"
       /\ \A i \in DOMAIN stack :
              (i <= Len(stack') /\ ~stack[i].tag) => ~stack'[i].tag
      ]_vars

C3_Witness ==
    /\ pc = "done" /\ result = "ok"
    /\ sink = <<Tag(U64(42)), Negative(U64(0))>>

\* C4: a newtype-variant writes nothing of its own iff its type name is TAG
\* and its variant name is UNTAGGED; for every other pair of names it writes
\* Map(Some(1)) and the variant name as a text string; in both cases the
\* encoding of the inner value follows.
C4_NewtypeVariant ==
    [][(StepOf("serialize_newtype_variant") /\ pc' # "failed")
          => /\ pc' = "value"
             /\ IF call'.name = TAG /\ call'.variant = UNTAGGED
                THEN sink' = sink
                ELSE sink' = sink \o <<Map(Some(1)),
                                       Text(Some(Len(as_bytes(call'.variant)))),
                                       Raw(as_bytes(call'.variant))>>
      ]_vars

C4_Witness ==
    /\ call.op = "serialize_newtype_variant"
    /\ call.name = TAG /\ call.variant = UNTAGGED
    /\ pc = "value"
    /\ sink = <<Map(Some(1)), Text(Some(10)), Raw(as_bytes(TAGGED))>>

StructLayout(fr, out) ==
    /\ fr.open \in DOMAIN out
    /\ out[fr.open] = Map(fr.len)
    /\ ~fr.ending
    /\ \A j \in DOMAIN fr.fields :
           LET e == fr.fields[j]
           IN  /\ e.at + 1 \in DOMAIN out
               /\ out[e.at] = Text(Some(Len(as_bytes(e.key))))
               /\ out[e.at + 1] = Raw(as_bytes(e.key))
               /\ j = 1 => e.at = fr.open + 1
               /\ j > 1 => fr.fields[j - 1].at + 2 <= e.at

StructsLaidOut ==
    Running => \A i \in DOMAIN stack :
                   stack[i].kind = "struct" => StructLayout(stack[i], sink)

\* C6: a struct of k declared fields writes Map(Some(k)); each
\* serialize_field call writes the field name as a text string at the point
\* of the call and is followed by the encoding of the field's value, so the
\* names appear in the sink in the order of the calls, each after the value
\* of the field before it; end writes no Break.
C6_StructFields ==
    [][/\ StructsLaidOut'
       /\ (StepOf("serialize_struct") /\ pc' # "failed")
            => sink' = Append(sink, Map(call'.len)) /\ pc' = "coll"
       /\ (StepOf("SerializeStruct::serialize_field") /\ pc' # "failed")
            => /\ sink' = sink \o <<Text(Some(Len(as_bytes(call'.key)))),
                                    Raw(as_bytes(call'.key))>>
               /\ pc' = "value"
       /\ (StepOf("end") /\ Top.kind = "struct") => sink' = sink /\ pc' # "failed"
      ]_vars

C6_Witness ==
    /\ pc = "done" /\ result = "ok"
    /\ sink = <<Map(Some(2)), Text(Some(1)), Raw(as_bytes("b")), Simple(NULL),
                Text(Some(1)), Raw(as_bytes("a")), Simple(NULL)>>

\* C8: in a (TAG, TAGGED) construct a first field that is not an unsigned
\* integer of at most 64 bits makes serialize_field fail with the domain
\* error Value("expected tag"), and the call writes nothing to the sink.
C8_ExpectedTag ==
    [][(/\ StepOf("SerializeTupleVariant::serialize_field") /\ Top.sentinel
        /\ Top.items = 0 /\ call'.first.t \notin {"u8", "u16", "u32", "u64"})
          => pc' = "failed" /\ result' = "value" /\ sink' = sink /\ flushed' = 0
      ]_vars

C8_Witness ==
    /\ pc = "failed" /\ result = "value"
    /\ call.op = "SerializeTupleVariant::serialize_field"
    /\ call.first.t = "i64" /\ is_negative(call.first.b)
    /\ sink = <<Array(None)>>

\* What call c writes, on top of out, when the writer refuses nothing.
Replay(c, out, stk) ==
    LET e == Encoder(out, 0)
        coll == CollOf(stk[Len(stk)])
    IN  CASE c.op = "serialize_i64" -> serialize_i64(e, c.first.b).out
          [] c.op = "serialize_str" -> serialize_str(e, c.first.str).out
          [] c.op = "serialize_none" -> serialize_none(e).out
          [] c.op = "serialize_newtype_variant" ->
                 serialize_newtype_variant(e, c.name, c.variant).out
          [] c.op = "serialize_seq" -> serialize_seq(e, c.len).s.out
          [] c.op = "serialize_tuple" -> serialize_tuple(e, c.len[1]).s.out
          [] c.op = "serialize_tuple_struct" -> serialize_tuple_struct(e, c.len[1]).s.out
          [] c.op = "serialize_tuple_variant" ->
                 serialize_tuple_variant(e, c.name, c.variant, c.len[1]).s.out
          [] c.op = "serialize_map" -> serialize_map(e, c.len).s.out
          [] c.op = "serialize_struct" -> serialize_struct(e, c.len[1]).s.out
          [] c.op = "serialize_struct_variant" ->
                 serialize_struct_variant(e, c.variant, c.len[1]).s.out
          [] c.op = "SerializeSeq::serialize_element" ->
                 SerializeSeq_serialize_element(e, coll).s.out
          [] c.op = "SerializeTuple::serialize_element" ->
                 SerializeTuple_serialize_element(e, coll).s.out
          [] c.op = "SerializeTupleStruct::serialize_field" ->
                 SerializeTupleStruct_serialize_field(e, coll).s.out
          [] c.op = "SerializeTupleVariant::serialize_field" ->
                 SerializeTupleVariant_serialize_field(e, coll, c.first).s.out
          [] c.op = "SerializeMap::serialize_key" ->
                 SerializeMap_serialize_key(e, coll).s.out
          [] c.op = "SerializeMap::serialize_value" ->
                 SerializeMap_serialize_value(e, coll).s.out
          [] c.op = "SerializeStruct::serialize_field" ->
                 SerializeStruct_serialize_field(e, coll, c.key).s.out
          [] c.op = "SerializeStructVariant::serialize_field" ->
                 SerializeStructVariant_serialize_field(e, coll, c.key).s.out
          [] c.op = "end" -> end(e, coll).out
          [] c.op = "flush" -> out

IsPrefix(p, q) == Len(p) <= Len(q) /\ SubSeq(q, 1, Len(p)) = p

\* C10: encoding is fail-fast without rollback: a call either writes all it
\* would write to a reliable writer and the encode goes on, or it fails; a
\* failing call leaves what the sink held, adds only the writes that
\* preceded the refused one (none on a domain error), nothing is flushed,
\* into_writer returns that error and no call follows it; a successful
\* encode ends with exactly one flush, which writes nothing.
C10_FailFast ==
    [][LET full == Replay(call', sink, stack)
       IN  /\ pc \notin {"done", "failed"}
           /\ IF pc' = "failed"
              THEN /\ result' \in {"io", "value"}
                   /\ IsPrefix(sink, sink') /\ IsPrefix(sink', full)
                   /\ (result' = "io" /\ call'.op # "flush") => sink' # full
                   /\ result' = "value" => sink' = sink
                   /\ stack' = <<>>
              ELSE /\ sink' = full
                   /\ result' = IF pc' = "done" THEN "ok" ELSE "pending"
           /\ flushed' = IF pc' = "done" THEN 1 ELSE 0
           /\ pc' = "done" <=> (call'.op = "flush" /\ pc' # "failed")
           /\ call'.op = "flush" <=> pc = "flush"
      ]_vars

C10_Witness ==
    /\ pc = "failed" /\ result = "io" /\ flushed = 0
    /\ call.op = "SerializeStruct::serialize_field"
    /\ sink = <<Map(Some(2)), Text(Some(1))>>

(***************************************************************************)
(* Properties of whole values encoded by into_writer (SpecValue).          *)
(***************************************************************************)
Encoded == pc \in {"done", "read", "checked"}
Reliable == Encoder(<<>>, 0)

\* The digits of a + b + carry, modulo 256^Len(a).
RECURSIVE Add(_, _, _, _)
Add(a, b, i, carry) ==
    IF i > Len(a) THEN <<>>
    ELSE LET sum == a[i] + b[i] + carry
         IN  <<sum % 256>> \o Add(a, b, i + 1, sum \div 256)

\* b = -1 - v in two's complement of Len(v) digits: b + v + 1 = 0.
IsMinusOneMinus(b, v) == Add(b, v, 1, 1) = Fill(0, Len(v))

\* The encoded integer as a 128-bit value, its sign, and whether it lies
\* in -2^64 .. 2^64 - 1.
Wide == IF Signed(value.ty.t) THEN sign_extend(value.v.b, 16)
        ELSE zero_extend(value.v.b, 16)
NonNegative == ~Signed(value.ty.t) \/ value.v.b[Len(value.v.b)] < 128
InRange64 == \A i \in 9..16 : Wide[i] = IF NonNegative THEN 0 ELSE 255

RECURSIVE Encodings(_)
Encodings(items) ==
    IF items = <<>> THEN <<>>
    ELSE Serialize(Head(items), Reliable).out \o Encodings(Tail(items))

OneTwoThree == <<IntV("i32", <<1, 0, 0, 0>>), IntV("i32", <<2, 0, 0, 0>>),
                 IntV("i32", <<3, 0, 0, 0>>)>>

\* C1: decoding what into_writer wrote, as the value's own type, gives the
\* value back (through either constructor), and no other value of that type
\* has the same encoding.
C1_RoundTrip ==
    pc = "checked" =>
        /\ decoded.reader = value.v
        /\ decoded.slice = value.v
        /\ \A w \in ValuesOf(value.ty) :
               Serialize(w, Reliable).out = sink => w = value.v

\* C5: a 128-bit integer outside -2^64 .. 2^64 - 1 is written as Tag(2)
\* (v >= 0) or Tag(3) (v < 0), Bytes(Some(len)) and len raw bytes, 9 to 16
\* of them, the first nonzero, which are the big-endian digits of v (of
\* -1 - v for v < 0).
C5_Bignum ==
    (Encoded /\ value.ty.t \in {"i128", "u128"} /\ ~InRange64) =>
        /\ Len(sink) = 3
        /\ sink[1] = Tag(<<IF NonNegative THEN 2 ELSE 3, 0, 0, 0, 0, 0, 0, 0>>)
        /\ sink[2] = Bytes(Some(Len(sink[3].a)))
        /\ sink[3].h = "raw"
        /\ LET bytes == sink[3].a
               len == Len(bytes)
               m == [i \in 1..16 |-> IF i <= len THEN bytes[len + 1 - i] ELSE 0]
           IN  /\ 9 <= len /\ len <= 16
               /\ bytes[1] # 0
               /\ IF NonNegative THEN m = Wide ELSE IsMinusOneMinus(m, Wide)

C5_Witness ==
    /\ Encoded
    /\ value.v = IntV("i128", Pattern(16, 8, 255, 254, 255))
    /\ sink = <<Tag(U64(3)), Bytes(Some(9)), Raw(<<1, 0, 0, 0, 0, 0, 0, 0, 0>>)>>

\* C7: a sequence, tuple or tuple-struct of n items is written as
\* Array(Some(n)) and then the encodings of its items in order, nothing
\* else; [1, 2, 3] is Array(Some(3)), Positive(1), Positive(2), Positive(3),
\* on the wire 83 01 02 03, and decodes to [1, 2, 3] through from_reader and
\* through from_slice.
C7_DeclaredArray ==
    (Encoded /\ value.ty.t \in {"seq", "tuple", "tuple_struct"}) =>
        /\ sink = <<Array(Some(Len(value.v.items)))>> \o Encodings(value.v.items)
        /\ value.v.items = OneTwoThree =>
               /\ sink = <<Array(Some(3)), Positive(<<1, 0, 0, 0, 0, 0, 0, 0>>),
                           Positive(<<2, 0, 0, 0, 0, 0, 0, 0>>),
                           Positive(<<3, 0, 0, 0, 0, 0, 0, 0>>)>>
               /\ Wire(sink) = <<131, 1, 2, 3>>
        /\ pc \in {"read", "checked"} => decoded.reader = value.v
        /\ pc = "checked" => decoded.slice = value.v

C7_Witness ==
    /\ pc = "checked"
    /\ value.v = V("tuple", <<>>, "", OneTwoThree)
    /\ Wire(sink) = <<131, 1, 2, 3>>
    /\ decoded.reader = value.v /\ decoded.slice = value.v

\* C9: an integer v in -2^64 .. 2^64 - 1, of any width, is written as one
\* header: Positive(v) for v >= 0, Negative(b) with b = -1 - v otherwise; the
\* 128-bit handlers write what the 64-bit ones write for the same number.
C9_SingleHeader ==
    (Encoded /\ value.ty.t \in IntTypes /\ InRange64) =>
        /\ Len(sink) = 1
        /\ IF NonNegative
           THEN sink[1] = Positive(SubSeq(Wide, 1, 8))
           ELSE /\ sink[1].h = "Negative" /\ Len(sink[1].a) = 8
                /\ IsMinusOneMinus(zero_extend(sink[1].a, 16), Wide)
        /\ (Signed(value.ty.t) /\ Width(value.ty.t) <= 8) =>
               /\ serialize_i64(Reliable, sign_extend(value.v.b, 8)).out = sink
               /\ serialize_i128(Reliable, Wide).out = sink
        /\ (~Signed(value.ty.t) /\ Width(value.ty.t) <= 8) =>
               /\ serialize_u64(Reliable, zero_extend(value.v.b, 8)).out = sink
               /\ serialize_u128(Reliable, Wide).out = sink

C9_Witness ==
    /\ Encoded
    /\ value.v = IntV("i128", Pattern(16, 8, 0, 255, 255))
    /\ sink = <<Negative(Fill(255, 8))>>

====
